---- MODULE Spec2Model ----
(***************************************************************************)
(* SafeRoute: the cleaning-and-clustering pipeline of src/cleaner.py and   *)
(* src/model.py.                                                           *)
(*                                                                         *)
(* Coordinates are floats in the source; here a float is the integer       *)
(* 100 * value (28.40 is 2840), so the comparisons of filter_city_limits   *)
(* are exact.  A CSV file holds text; a DataFrame holds typed cells.       *)
(***************************************************************************)
EXTENDS Integers, Sequences, FiniteSets, TLC

VARIABLES
    rawFile,       \* data/raw/accidents_raw.csv
    cleanFile,     \* data/processed/accidents_clean.csv
    centroidFile,  \* data/processed/cluster_centroids.csv
    k,             \* the k passed to run_ml_pipeline / identify_black_spots
    entropy,       \* what an unseeded random generator would draw next
    lat_bounds,    \* the lat_bounds argument of filter_city_limits
    lon_bounds,    \* the lon_bounds argument of filter_city_limits
    df_in,         \* the DataFrame the last call was given
    df,            \* the DataFrame the last call left (the local df)
    ret,           \* what the last call returned (or that it raised)
    stdout,        \* the diagnostics the last call printed
    lastCall,      \* the function called last
    kmeansCalls,   \* how often the last call invoked KMeans.fit_predict
    cleanRuns,     \* calls of run_cleaning_pipeline so far
    mlRuns,        \* calls of run_ml_pipeline so far
    phase          \* "fresh", "cleaned" once cleaning has run, "complete"
                   \* once the clustering has run after a cleaning

vars == <<rawFile, cleanFile, centroidFile, k, entropy, lat_bounds, lon_bounds,
          df_in, df, ret, stdout, lastCall, kmeansCalls, cleanRuns, mlRuns, phase>>

(***************************************************************************)
(* Bounds of the model.                                                    *)
(***************************************************************************)
MaxRows == 2      \* rows of a raw file
MaxK == 3         \* the largest k
MaxRuns == 2      \* calls of each pipeline script
MaxEntropy == 1   \* values of the system's entropy: 0..MaxEntropy
MaxCount == 52    \* records at one place, in the clustering inputs
MaxExtra == 1     \* records at the third place, in the clustering inputs

(***************************************************************************)
(* Program constants (floats scaled by 100).                               *)
(***************************************************************************)
DelhiLatMin == 2840
DelhiLatMax == 2888
DelhiLonMin == 7683
DelhiLonMax == 7734
HighThreshold == 50
ModerateThreshold == 20
RandomState == 42

delhi_lat_bounds == <<DelhiLatMin, DelhiLatMax>>
delhi_lon_bounds == <<DelhiLonMin, DelhiLonMax>>

(***************************************************************************)
(* Cells of a DataFrame: NaN, a float, a string, a Timestamp, NaT.         *)
(***************************************************************************)
NaN == [t |-> "nan", v |-> 0, s |-> ""]
NaT == [t |-> "nat", v |-> 0, s |-> ""]
Float(n) == [t |-> "float", v |-> n, s |-> ""]
Str(text) == [t |-> "str", v |-> 0, s |-> text]
Timestamp(day) == [t |-> "ts", v |-> 0, s |-> day]
Int64(n) == [t |-> "int", v |-> n, s |-> ""]

IsNull(c) == c.t \in {"nan", "nat"}

(***************************************************************************)
(* Text of a float, as Python's repr writes it: 2840 is "28.4", 2839 is    *)
(* "28.39", 2800 is "28.0".                                                *)
(***************************************************************************)
FloatRepr(n) ==
    LET whole == n \div 100
        frac  == n % 100
    IN  ToString(whole) \o "." \o
        (IF frac % 10 = 0 THEN ToString(frac \div 10)
         ELSE IF frac < 10 THEN "0" \o ToString(frac)
         ELSE ToString(frac))

\* The coordinate values the inputs are drawn from: each bound of the Delhi
\* box, and the value just outside it.
LatValues == {DelhiLatMin - 1, DelhiLatMin, DelhiLatMax, DelhiLatMax + 1}
LonValues == {DelhiLonMin - 1, DelhiLonMin, DelhiLonMax, DelhiLonMax + 1}
CoordValues == LatValues \cup LonValues

\* A numeral that is not the repr of its value (a trailing zero).
PaddedLat == "28.40"

\* The texts of the model that parse as a number, each with its number.
Numerals == {<<FloatRepr(n), n>> : n \in CoordValues} \cup {<<PaddedLat, DelhiLatMin>>}

\* Whether a text parses as a number, and the number.
IsNumeral(text) == \E p \in Numerals : p[1] = text

NumeralValue(text) == (CHOOSE p \in Numerals : p[1] = text)[2]

\* The one date of the model, as text and as a Timestamp's day.
IsoDate == "2023-01-15"

(***************************************************************************)
(* Files.  A CSV file is missing, or empty, or holds a header and rows of   *)
(* text.                                                                   *)
(***************************************************************************)
NoFile == [kind |-> "missing", columns |-> {}, rows |-> <<>>]
\* A file of zero bytes: not even a header.
EmptyFile == [kind |-> "empty", columns |-> {}, rows |-> <<>>]
Csv(cols, rows) == [kind |-> "csv", columns |-> cols, rows |-> rows]

DataFrame(cols, rows) == [columns |-> cols, rows |-> rows]
NoFrame == DataFrame({}, <<>>)

\* pd.read_csv: a column whose every cell is empty or a numeral is a float
\* column; any other column is an object column of strings.  Empty is NaN.
ColumnIsNumeric(file, c) ==
    \A i \in 1..Len(file.rows) :
        file.rows[i][c] = "" \/ IsNumeral(file.rows[i][c])

ReadCell(text, numeric) ==
    IF text = "" THEN NaN
    ELSE IF numeric THEN Float(NumeralValue(text))
    ELSE Str(text)

ReadCsv(file) ==
    DataFrame(file.columns,
        [i \in 1..Len(file.rows) |->
            [c \in file.columns |->
                ReadCell(file.rows[i][c], ColumnIsNumeric(file, c))]])

\* DataFrame.to_csv(index=False): every cell as text, NaN and NaT empty.
WriteCell(c) ==
    CASE c.t = "float" -> FloatRepr(c.v)
      [] c.t = "int"   -> ToString(c.v)
      [] c.t = "str"   -> c.s
      [] c.t = "ts"    -> c.s
      [] OTHER         -> ""

ToCsv(frame) ==
    Csv(frame.columns,
        [i \in 1..Len(frame.rows) |->
            [c \in frame.columns |-> WriteCell(frame.rows[i][c])]])

(***************************************************************************)
(* src/cleaner.py                                                          *)
(***************************************************************************)

\* load_data: the DataFrame read, or None when the file is not found (the
\* one exception it catches).  pd.read_csv raises EmptyDataError on a file
\* of zero bytes.  An empty DataFrame is a value of its own: kind "df" with
\* no rows.
None == [kind |-> "None", frame |-> NoFrame]
Returned(frame) == [kind |-> "df", frame |-> frame]
Raised == [kind |-> "raise", frame |-> NoFrame]
NotCalled == [kind |-> "none", frame |-> NoFrame]

\* A missing file read as an empty DataFrame instead of None.
load_data_silent(file) ==
    CASE file.kind = "missing" -> Returned(NoFrame)
      [] file.kind = "empty"   -> Raised
      [] OTHER                 -> Returned(ReadCsv(file))

load_data(file) ==
    CASE file.kind = "missing" -> None
      [] file.kind = "empty"   -> Raised
      [] OTHER                 -> Returned(ReadCsv(file))

\* DataFrame.dropna(subset=...): the rows with no null cell in the subset.
DropNa(frame, subset) ==
    LET Keep(row) == \A c \in subset : ~IsNull(row[c])
    IN  DataFrame(frame.columns, SelectSeq(frame.rows, Keep))

\* pd.to_numeric(errors='coerce') on one cell.
ToNumeric(c) ==
    CASE c.t = "float" -> c
      [] c.t = "str"   -> IF IsNumeral(c.s) THEN Float(NumeralValue(c.s)) ELSE NaN
      [] OTHER         -> NaN

\* df[col] = pd.to_numeric(df[col], errors='coerce')
AssignNumeric(frame, col) ==
    DataFrame(frame.columns,
        [i \in 1..Len(frame.rows) |->
            [c \in frame.columns |->
                IF c = col THEN ToNumeric(frame.rows[i][c]) ELSE frame.rows[i][c]]])

CoordinateColumns == {"Latitude", "Longitude"}

\* clean_coordinates, lines 20-25: dropna, coerce both columns, dropna.
clean_coordinates(frame) ==
    LET df_clean == DropNa(frame, CoordinateColumns)
        lat      == AssignNumeric(df_clean, "Latitude")
        lon      == AssignNumeric(lat, "Longitude")
    IN  DropNa(lon, CoordinateColumns)

\* The count taken after the first dropna only.
clean_coordinates_dropped_early(frame) ==
    Len(frame.rows) - Len(DropNa(frame, CoordinateColumns).rows)

\* clean_coordinates, line 27: the count it prints.
clean_coordinates_dropped(frame) ==
    Len(frame.rows) - Len(clean_coordinates(frame).rows)

\* pd.to_datetime(errors='coerce') on one cell.
ToDatetime(c) ==
    CASE c.t = "ts"  -> c
      [] c.t = "str" -> IF c.s = IsoDate THEN Timestamp(IsoDate) ELSE NaT
      [] OTHER       -> NaT

\* A fill that leaves the cell as it is.
FillNaSkipped(c) == c

\* Series.fillna('Unknown') on one cell.
FillNaUnknown(c) == IF IsNull(c) THEN Str("Unknown") ELSE c

\* df['Date'] = pd.to_datetime(df['Date'], errors='coerce')
AssignDatetime(frame) ==
    DataFrame(frame.columns,
        [i \in 1..Len(frame.rows) |->
            [c \in frame.columns |->
                IF c = "Date" THEN ToDatetime(frame.rows[i][c]) ELSE frame.rows[i][c]]])

\* df['Severity'] = df['Severity'].fillna('Unknown')
AssignSeverity(frame) ==
    DataFrame(frame.columns,
        [i \in 1..Len(frame.rows) |->
            [c \in frame.columns |->
                IF c = "Severity" THEN FillNaUnknown(frame.rows[i][c])
                ELSE frame.rows[i][c]]])

\* normalize_datetime: each column is touched only if the frame has it.
normalize_datetime(frame) ==
    LET dated == IF "Date" \in frame.columns THEN AssignDatetime(frame) ELSE frame
    IN  IF "Severity" \in dated.columns THEN AssignSeverity(dated) ELSE dated

\* A comparison of a cell with a number: NaN compares false.
CellGe(c, n) == c.t = "float" /\ c.v >= n
CellLe(c, n) == c.t = "float" /\ c.v <= n

\* The mask with open intervals: a record on a bound is dropped.
InCityLimitsOpen(row, latb, lonb) ==
    /\ row["Latitude"].t = "float" /\ row["Longitude"].t = "float"
    /\ row["Latitude"].v > latb[1] /\ row["Latitude"].v < latb[2]
    /\ row["Longitude"].v > lonb[1] /\ row["Longitude"].v < lonb[2]

\* filter_city_limits, lines 48-49: the mask of one row.
InCityLimits(row, latb, lonb) ==
    /\ CellGe(row["Latitude"], latb[1]) /\ CellLe(row["Latitude"], latb[2])
    /\ CellGe(row["Longitude"], lonb[1]) /\ CellLe(row["Longitude"], lonb[2])

filter_city_limits(frame, latb, lonb) ==
    LET Keep(row) == InCityLimits(row, latb, lonb)
    IN  DataFrame(frame.columns, SelectSeq(frame.rows, Keep))

\* filter_city_limits, line 52: the count it prints.
filter_city_limits_outliers(frame, latb, lonb) ==
    Len(frame.rows) - Len(filter_city_limits(frame, latb, lonb).rows)

(***************************************************************************)
(* Inputs: raw CSV files of at most MaxRows rows.                          *)
(***************************************************************************)
LatTexts == {FloatRepr(n) : n \in LatValues} \cup {PaddedLat, "abc", ""}
LonTexts == {FloatRepr(n) : n \in LonValues} \cup {"abc", ""}
DateTexts == {IsoDate, "soon", ""}
SeverityTexts == {"Fatal", ""}
GoodLat == FloatRepr(DelhiLatMax)
GoodLon == FloatRepr(DelhiLonMin)

\* Coordinates vary one axis at a time around a row inside the box, plus
\* two rows with both coordinates bad.
CoordPool ==
    {<<la, GoodLon>> : la \in LatTexts} \cup {<<GoodLat, lo>> : lo \in LonTexts}
    \cup {<<"abc", "">>, <<FloatRepr(DelhiLatMax + 1), FloatRepr(DelhiLonMin - 1)>>}

FullRow(la, lo, d, s) ==
    [c \in {"Latitude", "Longitude", "Date", "Severity"} |->
        CASE c = "Latitude" -> la [] c = "Longitude" -> lo
          [] c = "Date" -> d [] OTHER -> s]

FullRows ==
    {FullRow(p[1], p[2], IsoDate, "Fatal") : p \in CoordPool}
    \cup {FullRow(GoodLat, GoodLon, d, s) : d \in DateTexts, s \in SeverityTexts}

\* Date and Severity are optional columns; Road is a passthrough column
\* that names the row.
ColumnSets ==
    {CoordinateColumns \cup {"Road"} \cup opt : opt \in SUBSET {"Date", "Severity"}}

RoadName(i) == "R" \o ToString(i)

RawRow(full, cols, i) ==
    [c \in cols |-> IF c = "Road" THEN RoadName(i) ELSE full[c]]

RawFiles ==
    {Csv(cols, [i \in 1..n |-> RawRow(f[i], cols, i)]) :
        cols \in ColumnSets, n \in 0..MaxRows, f \in [1..MaxRows -> FullRows]}

Boxes ==
    { <<delhi_lat_bounds, delhi_lon_bounds>>,
      <<<<DelhiLatMax, DelhiLatMax>>, <<DelhiLonMin, DelhiLonMin>>>>,
      <<<<DelhiLatMin - 1, DelhiLatMax + 1>>, <<DelhiLonMin - 1, DelhiLonMax + 1>>>> }

\* What a call prints: the counts, and the tags of its other lines.
Printed(dropped, outliers, remaining, lines) ==
    [dropped |-> dropped, outliers |-> outliers, remaining |-> remaining,
     lines |-> lines]
Silent == Printed(0, 0, 0, {})

(***************************************************************************)
(* CleanSpec: the three steps of the Cleaning Stage, called in the order   *)
(* of run_cleaning_pipeline (lines 65-74) on a loaded DataFrame, with the  *)
(* bounding box an argument.                                               *)
(***************************************************************************)
CleanInit ==
    /\ rawFile \in RawFiles
    /\ \E box \in Boxes : lat_bounds = box[1] /\ lon_bounds = box[2]
    /\ df = load_data(rawFile).frame
    /\ df_in = NoFrame
    /\ ret = load_data(rawFile)
    /\ stdout = Printed(0, 0, 0, {"Loading"})
    /\ lastCall = "load_data"
    /\ cleanFile = NoFile /\ centroidFile = NoFile
    /\ k = 1 /\ entropy = 0 /\ kmeansCalls = 0 /\ cleanRuns = 0 /\ mlRuns = 0
    /\ phase = "fresh"

CleanFrame ==
    UNCHANGED <<rawFile, cleanFile, centroidFile, k, entropy, lat_bounds,
                lon_bounds, kmeansCalls, cleanRuns, mlRuns, phase>>

CleanCoordinatesCall ==
    /\ lastCall = "load_data"
    /\ df_in' = df
    /\ df' = clean_coordinates(df)
    /\ ret' = Returned(clean_coordinates(df))
    /\ stdout' = Printed(clean_coordinates_dropped(df), 0, 0, {"Dropped"})
    /\ lastCall' = "clean_coordinates"
    /\ CleanFrame

NormalizeDatetimeCall ==
    /\ lastCall = "clean_coordinates"
    /\ df_in' = df
    /\ df' = normalize_datetime(df)
    /\ ret' = Returned(normalize_datetime(df))
    /\ stdout' = Printed(0, 0, 0,
            (IF "Date" \in df.columns THEN {"Normalized"} ELSE {})
            \cup (IF "Severity" \in df.columns THEN {"Handled"} ELSE {}))
    /\ lastCall' = "normalize_datetime"
    /\ CleanFrame

FilterCityLimitsCall ==
    /\ lastCall = "normalize_datetime"
    /\ df_in' = df
    /\ df' = filter_city_limits(df, lat_bounds, lon_bounds)
    /\ ret' = Returned(filter_city_limits(df, lat_bounds, lon_bounds))
    /\ stdout' = Printed(0, filter_city_limits_outliers(df, lat_bounds, lon_bounds),
                         Len(filter_city_limits(df, lat_bounds, lon_bounds).rows),
                         {"Filtered"})
    /\ lastCall' = "filter_city_limits"
    /\ CleanFrame

CleanNext == CleanCoordinatesCall \/ NormalizeDatetimeCall \/ FilterCityLimitsCall

CleanSpec == CleanInit /\ [][CleanNext]_vars

(***************************************************************************)
(* Claims about the Cleaning Stage (CleanSpec).                            *)
(***************************************************************************)

\* What the claims read off a cell or a text, written apart from the code.
NumericCell(c) == c.t = "float" \/ (c.t = "str" /\ IsNumeral(c.s))
NumberOf(c) == IF c.t = "float" THEN c.v ELSE NumeralValue(c.s)
Within(n, bounds) == bounds[1] <= n /\ n <= bounds[2]
NumericText(text) == text # "" /\ IsNumeral(text)

\* The raw rows that have both coordinates numeric and inside the closed box.
RawRowsInBox ==
    {i \in 1..Len(rawFile.rows) :
        /\ NumericText(rawFile.rows[i]["Latitude"])
        /\ NumericText(rawFile.rows[i]["Longitude"])
        /\ Within(NumeralValue(rawFile.rows[i]["Latitude"]), lat_bounds)
        /\ Within(NumeralValue(rawFile.rows[i]["Longitude"]), lon_bounds)}

\* C1: after clean_coordinates, normalize_datetime and filter_city_limits,
\* every record has a numeric latitude and longitude inside the closed
\* intervals of the box, and the records kept are exactly the raw records
\* whose coordinates are numeric and inside the closed box: a record on a
\* bound is kept, a record strictly outside (or with a missing or
\* non-numeric coordinate) is dropped.
C1_CleanedInsideBox ==
    lastCall = "filter_city_limits" =>
        /\ \A i \in 1..Len(df.rows) :
            /\ df.rows[i]["Latitude"].t = "float"
            /\ df.rows[i]["Longitude"].t = "float"
            /\ Within(df.rows[i]["Latitude"].v, lat_bounds)
            /\ Within(df.rows[i]["Longitude"].v, lon_bounds)
        /\ {df.rows[i]["Road"].s : i \in 1..Len(df.rows)}
             = {rawFile.rows[j]["Road"] : j \in RawRowsInBox}

\* C1 witness: of two raw records, the one kept lies on two bounds of the
\* box and the one dropped lies just outside a bound.
C1_Witness ==
    /\ lastCall = "filter_city_limits"
    /\ Len(rawFile.rows) = 2 /\ Len(df.rows) = 1 /\ stdout.outliers = 1
    /\ df.rows[1]["Latitude"].v = lat_bounds[2]
    /\ df.rows[1]["Longitude"].v = lon_bounds[1]

\* The test of the step called last, on a record of its input.
PassesStep(row) ==
    IF lastCall = "clean_coordinates"
    THEN NumericCell(row["Latitude"]) /\ NumericCell(row["Longitude"])
    ELSE /\ NumericCell(row["Latitude"]) /\ NumericCell(row["Longitude"])
         /\ Within(NumberOf(row["Latitude"]), lat_bounds)
         /\ Within(NumberOf(row["Longitude"]), lon_bounds)

ReportedDropped ==
    IF lastCall = "clean_coordinates" THEN stdout.dropped ELSE stdout.outliers

\* C2 as stated: at each filtering step the dropped count plus the records
\* remaining is the number of records before the step, and the remaining
\* records are the input records that pass the step's test, each one
\* unaltered.
C2_Unaltered ==
    lastCall \in {"clean_coordinates", "filter_city_limits"} =>
        /\ ReportedDropped + Len(df.rows) = Len(df_in.rows)
        /\ df.rows = SelectSeq(df_in.rows, PassesStep)

\* C2 amended: at each filtering step the dropped count plus the records
\* remaining is the number of records before the step, and the remaining
\* records are the input records that pass the step's test, in order, none
\* added or duplicated, each unaltered except that its Latitude and
\* Longitude are numbers (numeric text is converted by clean_coordinates).
C2_Conservation ==
    lastCall \in {"clean_coordinates", "filter_city_limits"} =>
        LET passing == SelectSeq(df_in.rows, PassesStep)
        IN  /\ ReportedDropped + Len(df.rows) = Len(df_in.rows)
            /\ Len(df.rows) = Len(passing)
            /\ df.columns = df_in.columns
            /\ \A i \in 1..Len(df.rows) : \A c \in df.columns :
                 df.rows[i][c] = IF c \in CoordinateColumns
                                 THEN Float(NumberOf(passing[i][c]))
                                 ELSE passing[i][c]

\* C2 witness: clean_coordinates has dropped one record whose coordinate is
\* not a number and kept one whose latitude was numeric text.
C2_Witness ==
    /\ lastCall = "clean_coordinates"
    /\ stdout.dropped = 1 /\ Len(df.rows) = 1
    /\ \E i \in 1..Len(df_in.rows) :
         df_in.rows[i]["Latitude"].t = "str" /\ ~IsNumeral(df_in.rows[i]["Latitude"].s)
    /\ \E i \in 1..Len(df_in.rows) :
         df_in.rows[i]["Latitude"].t = "str" /\ IsNumeral(df_in.rows[i]["Latitude"].s)
         /\ NumericCell(df_in.rows[i]["Longitude"])

load_cleaned_data(file) ==
    CASE file.kind = "missing" -> None
      [] file.kind = "empty"   -> Raised
      [] OTHER                 -> Returned(ReadCsv(file))

\* The thresholds compared with >= : 50 is already High, 20 already Moderate.
calculate_risk_score_inclusive(cluster_data) ==
    LET crash_count == Len(cluster_data)
    IN  IF crash_count >= HighThreshold THEN "High"
        ELSE IF crash_count >= ModerateThreshold THEN "Moderate"
        ELSE "Low"

\* calculate_risk_score: by the number of records alone.
calculate_risk_score(cluster_data) ==
    LET crash_count == Len(cluster_data)
    IN  IF crash_count > HighThreshold THEN "High"
        ELSE IF crash_count > ModerateThreshold THEN "Moderate"
        ELSE "Low"

\* The seed drawn from the system's entropy (random_state=None).
random_state_unset(e) == e

\* KMeans(random_state=42): the seed does not depend on the entropy.
random_state(e) == RandomState

(***************************************************************************)
(* KMeans is scikit-learn's, not this repository's.  The model keeps its   *)
(* contract: fit_predict raises ValueError on no sample, on a value that   *)
(* is not a finite number, and on fewer samples than clusters; otherwise   *)
(* the labels are in 0..k-1 and are a function of the points, k and the    *)
(* seed; equal points share a label; min(k, distinct points) clusters are  *)
(* non-empty; a centre is the mean of its cluster (to the model's 1/100).  *)
(* Which of the partitions with these properties it returns is not         *)
(* modelled geometrically: places are cut into runs in coordinate order,   *)
(* and the seed decides how the runs are numbered.                         *)
(***************************************************************************)
Point(row) == <<row["Latitude"].v, row["Longitude"].v>>

\* df[['Latitude', 'Longitude']].to_numpy()  (<<>> \o s is s, as a tuple)
Coordinates(frame) == <<>> \o [i \in 1..Len(frame.rows) |-> Point(frame.rows[i])]

PointLess(p, q) == p[1] < q[1] \/ (p[1] = q[1] /\ p[2] < q[2])
Places(X) == {X[i] : i \in 1..Len(X)}
Rank(p, places) == Cardinality({q \in places : PointLess(q, p)})
Min(a, b) == IF a < b THEN a ELSE b

KMeansLabel(p, places, n_clusters, seed) ==
    LET found == Min(n_clusters, Cardinality(places))
        run   == (Rank(p, places) * found) \div Cardinality(places)
    IN  (run + seed) % n_clusters

KMeansLabels(X, n_clusters, seed) ==
    LET places == Places(X)
        of     == [p \in places |-> KMeansLabel(p, places, n_clusters, seed)]
    IN  <<>> \o [i \in 1..Len(X) |-> of[X[i]]]

RECURSIVE SumAxis(_, _, _, _, _)
\* The sum over the samples 1..i labelled c of coordinate axis.
SumAxis(X, labels, c, axis, i) ==
    IF i = 0 THEN 0
    ELSE SumAxis(X, labels, c, axis, i - 1)
         + (IF labels[i] = c THEN X[i][axis] ELSE 0)

Members(labels, c) == {i \in 1..Len(labels) : labels[i] = c}

\* cluster_centers_[c]: the mean of the cluster; an empty cluster's centre
\* is the mean of all samples.
KMeansCenter(X, labels, c) ==
    LET size == Cardinality(Members(labels, c))
        all  == <<>> \o [i \in 1..Len(X) |-> c]
    IN  IF size > 0
        THEN <<SumAxis(X, labels, c, 1, Len(X)) \div size,
               SumAxis(X, labels, c, 2, Len(X)) \div size>>
        ELSE <<SumAxis(X, all, c, 1, Len(X)) \div Len(X),
               SumAxis(X, all, c, 2, Len(X)) \div Len(X)>>

KMeansRaises(frame, n_clusters) ==
    \/ Len(frame.rows) = 0
    \/ ~(CoordinateColumns \subseteq frame.columns)
    \/ \E i \in 1..Len(frame.rows) : \E c \in CoordinateColumns :
         frame.rows[i][c].t # "float"
    \/ Len(frame.rows) < n_clusters

\* df['Cluster_ID'] = kmeans.fit_predict(coordinates)
AssignClusterId(frame, labels) ==
    DataFrame(frame.columns \cup {"Cluster_ID"},
        [i \in 1..Len(frame.rows) |->
            [c \in frame.columns \cup {"Cluster_ID"} |->
                IF c = "Cluster_ID" THEN Int64(labels[i]) ELSE frame.rows[i][c]]])

CentroidColumns ==
    {"Cluster_ID", "Latitude", "Longitude", "Total_Crashes", "Risk_Level"}

\* The loop that runs over one cluster too few.
ClusterRange_short(n_clusters) == 0..(n_clusters - 2)

\* for i in range(k)
ClusterRange(n_clusters) == 0..(n_clusters - 1)

\* identify_black_spots, lines 48-62: the row of cluster i.
BlackSpot(labelled, centres, i) ==
    LET IsMember(row) == row["Cluster_ID"] = Int64(i)
        cluster_points == SelectSeq(labelled.rows, IsMember)
    IN  [c \in CentroidColumns |->
            CASE c = "Cluster_ID"    -> Int64(i)
              [] c = "Latitude"      -> Float(centres[i + 1][1])
              [] c = "Longitude"     -> Float(centres[i + 1][2])
              [] c = "Total_Crashes" -> Int64(Len(cluster_points))
              [] OTHER               -> Str(calculate_risk_score(cluster_points))]

\* identify_black_spots when KMeans does not raise: the centroid table and
\* the labelled frame.
identify_black_spots(frame, n_clusters, e) ==
    LET X        == Coordinates(frame)
        labels   == KMeansLabels(X, n_clusters, random_state(e))
        centres  == <<>> \o [c \in 1..n_clusters |-> KMeansCenter(X, labels, c - 1)]
        labelled == AssignClusterId(frame, labels)
        ids      == ClusterRange(n_clusters)
    IN  [centroids |-> DataFrame(CentroidColumns,
                          [j \in 1..Cardinality(ids) |->
                              BlackSpot(labelled, centres, j - 1)]),
         clustered |-> labelled]

(***************************************************************************)
(* ClusterSpec: identify_black_spots called on a cleaned frame that holds  *)
(* up to MaxCount records at each of two places and MaxExtra at a third.   *)
(***************************************************************************)
Place1 == <<DelhiLatMin, DelhiLonMin>>
Place2 == <<DelhiLatMax, DelhiLonMax>>
Place3 == <<DelhiLatMin, DelhiLonMax>>

RecordAt(p) ==
    [c \in CoordinateColumns |-> IF c = "Latitude" THEN Float(p[1]) ELSE Float(p[2])]

ClusterFrame(a, b, c) ==
    DataFrame(CoordinateColumns,
        [i \in 1..(a + b + c) |->
            IF i <= a THEN RecordAt(Place1)
            ELSE IF i <= a + b THEN RecordAt(Place2)
            ELSE RecordAt(Place3)])

ClusterInit ==
    /\ \E a \in 0..MaxCount, b \in 0..MaxCount, c \in 0..MaxExtra :
         df = ClusterFrame(a, b, c)
    /\ k \in 1..MaxK
    /\ entropy = 0
    /\ df_in = NoFrame
    /\ ret = NotCalled
    /\ stdout = Silent
    /\ lastCall = "none"
    /\ rawFile = NoFile /\ cleanFile = NoFile /\ centroidFile = NoFile
    /\ lat_bounds = delhi_lat_bounds /\ lon_bounds = delhi_lon_bounds
    /\ kmeansCalls = 0 /\ cleanRuns = 0 /\ mlRuns = 0 /\ phase = "fresh"

\* A call of identify_black_spots(df, k): KMeans is invoked whatever the
\* frame holds, and what it raises is not caught.
IdentifyBlackSpotsCall ==
    /\ lastCall = "none"
    /\ df_in' = df
    /\ kmeansCalls' = 1
    /\ IF KMeansRaises(df, k)
       THEN /\ ret' = Raised
            /\ df' = df
            /\ stdout' = Printed(0, 0, 0, {"Running"})
       ELSE LET result == identify_black_spots(df, k, entropy)
            IN  /\ ret' = Returned(result.centroids)
                /\ df' = result.clustered
            /\ stdout' = Printed(0, 0, 0, {"Running", "Identified"})
    /\ lastCall' = "identify_black_spots"
    /\ UNCHANGED <<rawFile, cleanFile, centroidFile, k, entropy, lat_bounds,
                   lon_bounds, cleanRuns, mlRuns, phase>>

ClusterNext == IdentifyBlackSpotsCall

ClusterSpec == ClusterInit /\ [][ClusterNext]_vars

(***************************************************************************)
(* Claims about the Clustering Stage (ClusterSpec).                        *)
(***************************************************************************)
RECURSIVE SumTotalCrashes(_, _)
\* The sum of Total_Crashes over the first j rows of a centroid table.
SumTotalCrashes(table, j) ==
    IF j = 0 THEN 0
    ELSE SumTotalCrashes(table, j - 1) + table.rows[j]["Total_Crashes"].v

\* The records of the labelled frame that carry Cluster_ID c.
Labelled(c) == {i \in 1..Len(df.rows) : df.rows[i]["Cluster_ID"] = Int64(c)}

IdentifyReturned == lastCall = "identify_black_spots" /\ ret.kind = "df"

\* C3: when identify_black_spots(records, k) returns on a non-empty cleaned
\* record set, every record carries one Cluster_ID in [0, k), the centroid
\* table has one row for each Cluster_ID in [0, k), each row's Total_Crashes
\* is the number of records labelled with its Cluster_ID, and the
\* Total_Crashes sum to the number of records.
C3_EveryRecordOneCluster ==
    IdentifyReturned =>
        /\ Len(df_in.rows) > 0
        /\ Len(df.rows) = Len(df_in.rows)
        /\ \A i \in 1..Len(df.rows) :
             /\ df.rows[i]["Cluster_ID"].t = "int"
             /\ df.rows[i]["Cluster_ID"].v \in 0..(k - 1)
             /\ \A c \in df_in.columns : df.rows[i][c] = df_in.rows[i][c]
        /\ Len(ret.frame.rows) = k
        /\ \A j \in 1..Len(ret.frame.rows) :
             /\ ret.frame.rows[j]["Cluster_ID"] = Int64(j - 1)
             /\ ret.frame.rows[j]["Total_Crashes"]
                  = Int64(Cardinality(Labelled(j - 1)))
        /\ SumTotalCrashes(ret.frame, Len(ret.frame.rows)) = Len(df_in.rows)

\* C3 witness: three clusters, none empty, over more than fifty records.
C3_Witness ==
    /\ IdentifyReturned
    /\ k = 3 /\ Len(df_in.rows) > 50
    /\ \A j \in 1..3 : ret.frame.rows[j]["Total_Crashes"].v > 0

\* C4: the Risk_Level of every cluster is decided by its record count n
\* alone: High if n > 50, Moderate if 21 <= n <= 50, Low if n <= 20; so 50
\* gives Moderate, 51 High, 20 Low, 21 Moderate and 0 Low.
C4_RiskByCount ==
    IdentifyReturned =>
        \A j \in 1..Len(ret.frame.rows) :
            LET n    == Cardinality(Labelled(ret.frame.rows[j]["Cluster_ID"].v))
                risk == ret.frame.rows[j]["Risk_Level"]
            IN  /\ n > 50 => risk = Str("High")
                /\ (21 <= n /\ n <= 50) => risk = Str("Moderate")
                /\ n <= 20 => risk = Str("Low")
                /\ n = 50 => risk = Str("Moderate")
                /\ n = 51 => risk = Str("High")
                /\ n = 20 => risk = Str("Low")
                /\ n = 21 => risk = Str("Moderate")
                /\ n = 0 => risk = Str("Low")

\* C4 witness: one table with a cluster of exactly 50 records (Moderate)
\* and a cluster of exactly 51 (High).
C4_Witness ==
    /\ IdentifyReturned
    /\ \E j \in 1..Len(ret.frame.rows) :
         /\ ret.frame.rows[j]["Total_Crashes"] = Int64(50)
         /\ ret.frame.rows[j]["Risk_Level"] = Str("Moderate")
    /\ \E j \in 1..Len(ret.frame.rows) :
         /\ ret.frame.rows[j]["Total_Crashes"] = Int64(51)
         /\ ret.frame.rows[j]["Risk_Level"] = Str("High")

\* C6 as stated: when k exceeds the number of records passed (at least
\* one), identify_black_spots does not crash: it returns a centroid table,
\* in which every cluster that received no record has Total_Crashes 0 and
\* Risk_Level Low.
C6_NoCrashWhenKExceedsRecords ==
    (lastCall = "identify_black_spots" /\ Len(df_in.rows) >= 1
        /\ k > Len(df_in.rows)) =>
        /\ ret.kind = "df"
        /\ \A j \in 1..Len(ret.frame.rows) :
             Labelled(ret.frame.rows[j]["Cluster_ID"].v) = {} =>
                /\ ret.frame.rows[j]["Total_Crashes"] = Int64(0)
                /\ ret.frame.rows[j]["Risk_Level"] = Str("Low")

(***************************************************************************)
(* Spec: the two scripts on the three artifacts.  Either script may be run *)
(* at any time (each has its own __main__); the raw file and k stay fixed. *)
(***************************************************************************)
AllColumns == CoordinateColumns \cup {"Road", "Date", "Severity"}

\* A row inside the box, a second place inside the box (Date unparseable,
\* Severity missing), a row outside the box, a row with a bad coordinate.
PipelineRows ==
    { FullRow(GoodLat, GoodLon, IsoDate, "Fatal"),
      FullRow(FloatRepr(DelhiLatMin), FloatRepr(DelhiLonMax), "soon", ""),
      FullRow(FloatRepr(DelhiLatMax + 1), GoodLon, IsoDate, "Fatal"),
      FullRow("abc", GoodLon, IsoDate, "Fatal") }

PipelineRawFiles ==
    {NoFile, EmptyFile} \cup
    {Csv(AllColumns, [i \in 1..n |-> RawRow(f[i], AllColumns, i)]) :
        n \in 0..MaxRows, f \in [1..MaxRows -> PipelineRows]}

\* What an earlier run on other data may have left behind.
StaleClean ==
    Csv(AllColumns,
        <<[c \in AllColumns |->
            CASE c = "Latitude" -> FloatRepr(DelhiLatMin)
              [] c = "Longitude" -> FloatRepr(DelhiLonMin)
              [] c = "Road" -> "R9"
              [] c = "Date" -> IsoDate
              [] OTHER -> "Unknown"]>>)

StaleCentroids ==
    Csv(CentroidColumns,
        <<[c \in CentroidColumns |->
            CASE c = "Cluster_ID" -> "0"
              [] c = "Latitude" -> FloatRepr(DelhiLatMin)
              [] c = "Longitude" -> FloatRepr(DelhiLonMin)
              [] c = "Total_Crashes" -> "1"
              [] OTHER -> "Low"]>>)

Init ==
    /\ rawFile \in PipelineRawFiles
    /\ cleanFile \in {NoFile, StaleClean}
    /\ centroidFile \in {NoFile, StaleCentroids}
    /\ k \in 1..MaxK
    /\ entropy \in 0..MaxEntropy
    /\ lat_bounds = delhi_lat_bounds /\ lon_bounds = delhi_lon_bounds
    /\ df_in = NoFrame /\ df = NoFrame
    /\ ret = NotCalled
    /\ stdout = Silent
    /\ lastCall = "none"
    /\ kmeansCalls = 0 /\ cleanRuns = 0 /\ mlRuns = 0 /\ phase = "fresh"

\* DataFrame.to_csv(path, index=False): the file is replaced.
Overwrite(old, frame) == ToCsv(frame)

\* run_cleaning_pipeline(input_file, output_file), whole.
run_cleaning_pipeline ==
    /\ cleanRuns < MaxRuns
    /\ cleanRuns' = cleanRuns + 1
    /\ lastCall' = "run_cleaning_pipeline"
    /\ kmeansCalls' = 0
    /\ phase' = IF phase = "fresh" THEN "cleaned" ELSE phase
    /\ LET loaded == load_data(rawFile)
       IN  CASE loaded.kind = "None" ->
                  \* lines 59-60: return
                  /\ ret' = None
                  /\ stdout' = Printed(0, 0, 0, {"Loading", "FileNotFound"})
                  /\ UNCHANGED <<cleanFile, df, df_in>>
             [] loaded.kind = "raise" ->
                  /\ ret' = Raised
                  /\ stdout' = Printed(0, 0, 0, {"Loading"})
                  /\ UNCHANGED <<cleanFile, df, df_in>>
             [] OTHER ->
                  LET coords   == clean_coordinates(loaded.frame)
                      normal   == normalize_datetime(coords)
                      filtered == filter_city_limits(normal, delhi_lat_bounds,
                                                     delhi_lon_bounds)
                  IN  /\ df_in' = loaded.frame
                      /\ df' = filtered
                      /\ cleanFile' = Overwrite(cleanFile, filtered)
                      /\ ret' = Returned(filtered)
                      /\ stdout' = Printed(
                            clean_coordinates_dropped(loaded.frame),
                            filter_city_limits_outliers(normal, delhi_lat_bounds,
                                                        delhi_lon_bounds),
                            Len(filtered.rows),
                            {"Loading", "InitialSize", "Dropped", "Filtered", "SUCCESS"}
                            \cup (IF "Date" \in coords.columns
                                  THEN {"Normalized"} ELSE {})
                            \cup (IF "Severity" \in coords.columns
                                  THEN {"Handled"} ELSE {}))
    /\ UNCHANGED <<rawFile, centroidFile, k, entropy, lat_bounds, lon_bounds, mlRuns>>

\* DataFrame.empty
IsEmpty(frame) == Len(frame.rows) = 0 \/ frame.columns = {}

\* run_ml_pipeline(input_file, output_centroids_file, k), whole.  The
\* function has no return statement but the bare one: it returns None on
\* every path that does not raise.
run_ml_pipeline ==
    /\ mlRuns < MaxRuns
    /\ mlRuns' = mlRuns + 1
    /\ lastCall' = "run_ml_pipeline"
    /\ entropy' \in 0..MaxEntropy
    /\ phase' = IF phase = "cleaned" THEN "complete" ELSE phase
    /\ LET loaded == load_cleaned_data(cleanFile)
       IN  CASE loaded.kind = "None" ->
                  /\ ret' = None
                  /\ stdout' = Printed(0, 0, 0, {"Loading", "FileNotFound"})
                  /\ kmeansCalls' = 0
                  /\ UNCHANGED <<centroidFile, df, df_in>>
             [] loaded.kind = "raise" ->
                  /\ ret' = Raised
                  /\ stdout' = Printed(0, 0, 0, {"Loading"})
                  /\ kmeansCalls' = 0
                  /\ UNCHANGED <<centroidFile, df, df_in>>
             [] loaded.kind = "df" /\ IsEmpty(loaded.frame) ->
                  \* lines 70-71: return, with nothing printed
                  /\ ret' = None
                  /\ stdout' = Printed(0, 0, 0, {"Loading"})
                  /\ kmeansCalls' = 0
                  /\ UNCHANGED <<centroidFile, df, df_in>>
             [] OTHER ->
                  /\ df_in' = loaded.frame
                  /\ kmeansCalls' = 1
                  /\ IF KMeansRaises(loaded.frame, k)
                     THEN /\ ret' = Raised
                          /\ df' = loaded.frame
                          /\ stdout' = Printed(0, 0, 0, {"Loading", "Running"})
                          /\ UNCHANGED centroidFile
                     ELSE LET result == identify_black_spots(loaded.frame, k, entropy)
                          IN  /\ df' = result.clustered
                              /\ centroidFile' = Overwrite(centroidFile, result.centroids)
                              /\ ret' = None
                              /\ stdout' = Printed(0, 0, 0,
                                    {"Loading", "Running", "Identified", "SUCCESS"})
    /\ UNCHANGED <<rawFile, cleanFile, k, lat_bounds, lon_bounds, cleanRuns>>

Next == run_cleaning_pipeline \/ run_ml_pipeline

Spec == Init /\ [][Next]_vars

(***************************************************************************)
(* Claims about the pipeline (Spec).                                       *)
(***************************************************************************)
HeaderOnly(file) == file.kind = "csv" /\ Len(file.rows) = 0

\* The lines a call prints only when it goes past loading.
StepLines == {"InitialSize", "Dropped", "Normalized", "Handled", "Filtered", "SUCCESS"}

\* C5 as stated: when the record set is empty after cleaning, no persist
\* step runs: the cleaned artifact and the centroid artifact are left as
\* they were, by the cleaning run that found the set empty and by a
\* clustering run on an empty cleaned set.
C5_EmptyLeavesArtifacts ==
    [][ /\ (run_cleaning_pipeline /\ ret'.kind = "df" /\ Len(ret'.frame.rows) = 0)
            => (cleanFile' = cleanFile /\ centroidFile' = centroidFile)
        /\ (run_ml_pipeline /\ HeaderOnly(cleanFile))
            => (cleanFile' = cleanFile /\ centroidFile' = centroidFile) ]_vars

\* C7: when the raw file is missing, run_cleaning_pipeline does not raise,
\* runs no cleaning step, writes no artifact and returns None; and a run
\* that loaded its input returns a DataFrame, so None is never the outcome
\* of a successful run, not even of one that kept no record.
C7_MissingRawHalts ==
    [][ /\ (run_cleaning_pipeline /\ rawFile.kind = "missing")
            => /\ ret' = None
               /\ cleanFile' = cleanFile /\ centroidFile' = centroidFile
               /\ df' = df
               /\ stdout'.lines \cap StepLines = {}
               /\ "FileNotFound" \in stdout'.lines
        /\ (run_cleaning_pipeline /\ rawFile.kind = "csv")
            => /\ ret'.kind = "df"
               /\ ret' # None
               /\ "FileNotFound" \notin stdout'.lines ]_vars

\* C7 witness: a cleaning run on a missing raw file has returned None and
\* the cleaned artifact of an earlier run is still there.
C7_Witness ==
    /\ lastCall = "run_cleaning_pipeline"
    /\ rawFile.kind = "missing"
    /\ ret = None
    /\ cleanFile = StaleClean

\* Whether a call's outcome tells its caller that something was amiss: it
\* raised, it returned something other than the None of a run that saved
\* its centroids, or it printed an error.
Signalled(r, out) == r.kind # "None" \/ "FileNotFound" \in out.lines

\* C8 as stated: when the cleaned record set is empty or the cleaned
\* artifact is missing, the clustering run signals the condition, does not
\* invoke KMeans and writes no centroid artifact.
C8_EmptySignalled ==
    [][ (run_ml_pipeline /\ (cleanFile.kind = "missing" \/ HeaderOnly(cleanFile)))
            => /\ kmeansCalls' = 0
               /\ centroidFile' = centroidFile
               /\ Signalled(ret', stdout') ]_vars

\* C9: once the cleaning and then the clustering have run, running either
\* again on the same raw file with the same k changes neither artifact,
\* whatever the artifacts held before the first run.
C9_RerunIdempotent ==
    [][ phase = "complete"
            => (cleanFile' = cleanFile /\ centroidFile' = centroidFile) ]_vars

\* C9 witness: both scripts have run twice, the last clustering run saved
\* two centroids over two cleaned records, and stale artifacts were there
\* before the first run.
C9_Witness ==
    /\ phase = "complete" /\ cleanRuns = 2 /\ mlRuns = 2
    /\ lastCall = "run_ml_pipeline" /\ "SUCCESS" \in stdout.lines
    /\ k = 2 /\ Len(cleanFile.rows) = 2 /\ Len(centroidFile.rows) = 2
    /\ \A j \in 1..2 : centroidFile.rows[j]["Total_Crashes"] = "1"

====
